---- MODULE Spec2Model ----
(***************************************************************************)
(* SecureVote: election lifecycle (AdminDashboard.tsx), vote submission    *)
(* path (VoterInterface.tsx, App.tsx), telemetry simulation (App.tsx),     *)
(* persistence effects (App.tsx) and the crypto placeholder                *)
(* (cryptoService.ts).                                                     *)
(*                                                                         *)
(* Text that goes through the crypto service is a sequence of one-         *)
(* character strings, so that JSON.stringify, reverse, btoa, atob,         *)
(* split and JSON.parse are computed character by character.               *)
(***************************************************************************)
EXTENDS Integers, Sequences, FiniteSets, TLC

(***************************************************************************)
(* Bounds of the exploration.                                              *)
(***************************************************************************)
\* the last reading of Date.now()
MaxClock == 1

\* interval callbacks run
MaxTicks == 2

\* records in the ledger, pending submissions included
MaxVotes == 2

\* encryptVote calls pending at once
MaxInflight == 2

\* timeouts of handleAuthComplete pending at once
MaxTimers == 2

\* a candidate is added while fewer than this many are registered
MaxCandidates == 3

\* a booth is added while fewer than this many are registered
MaxBooths == 3

(***************************************************************************)
(* Characters.                                                             *)
(***************************************************************************)
ASCII == <<" ", "!", "\"", "#", "$", "%", "&", "'", "(", ")", "*", "+", ",", "-", ".", "/", "0", "1", "2", "3", "4", "5", "6", "7", "8", "9", ":", ";", "<", "=", ">", "?", "@", "A", "B", "C", "D", "E", "F", "G", "H", "I", "J", "K", "L", "M", "N", "O", "P", "Q", "R", "S", "T", "U", "V", "W", "X", "Y", "Z", "[", "\\", "]", "^", "_", "BACKTICK", "a", "b", "c", "d", "e", "f", "g", "h", "i", "j", "k", "l", "m", "n", "o", "p", "q", "r", "s", "t", "u", "v", "w", "x", "y", "z", "{", "|", "}", "~">>

B64 == <<"A", "B", "C", "D", "E", "F", "G", "H", "I", "J", "K", "L", "M", "N", "O", "P", "Q", "R", "S", "T", "U", "V", "W", "X", "Y", "Z", "a", "b", "c", "d", "e", "f", "g", "h", "i", "j", "k", "l", "m", "n", "o", "p", "q", "r", "s", "t", "u", "v", "w", "x", "y", "z", "0", "1", "2", "3", "4", "5", "6", "7", "8", "9", "+", "/">>

\* a byte outside the printable range, as one opaque character
NonPrintable == "NP"

\* the value null of the source, distinct from every text
Null == <<"null">>

IndexOf(seq, c) == CHOOSE i \in 1..Len(seq) : seq[i] = c

InSeq(seq, c) == \E i \in 1..Len(seq) : seq[i] = c

\* String.prototype.charCodeAt
Code(c) == IF InSeq(ASCII, c) THEN 31 + IndexOf(ASCII, c) ELSE 255

\* String.fromCharCode
Chr(n) == IF n \in 32..126 THEN ASCII[n - 31] ELSE NonPrintable

Min(a, b) == IF a < b THEN a ELSE b

Max(a, b) == IF a > b THEN a ELSE b

\* split, reverse, join: the text reversed
Reverse(s) == [i \in 1..Len(s) |-> s[Len(s) + 1 - i]]

\* s.substring(0, n)
Substring0(s, n) == SubSeq(s, 1, Min(n, Len(s)))

\* the part of the text before its first dot
RECURSIVE SplitDot0(_)
SplitDot0(s) ==
  IF s = <<>> \/ Head(s) = "." THEN <<>>
  ELSE <<Head(s)>> \o SplitDot0(Tail(s))

\* Number.prototype.toString for a non-negative integer
RECURSIVE Digits(_)
Digits(n) ==
  IF n < 10 THEN <<ASCII[17 + n]>>
  ELSE Digits(n \div 10) \o <<ASCII[17 + (n % 10)]>>

(***************************************************************************)
(* btoa / atob.                                                            *)
(***************************************************************************)
RECURSIVE BtoaBytes(_)
BtoaBytes(b) ==
  IF Len(b) = 0 THEN <<>>
  ELSE IF Len(b) = 1 THEN
    <<B64[(b[1] \div 4) + 1], B64[((b[1] % 4) * 16) + 1], "=", "=">>
  ELSE IF Len(b) = 2 THEN
    <<B64[(b[1] \div 4) + 1],
      B64[((b[1] % 4) * 16 + (b[2] \div 16)) + 1],
      B64[((b[2] % 16) * 4) + 1], "=">>
  ELSE
    <<B64[(b[1] \div 4) + 1],
      B64[((b[1] % 4) * 16 + (b[2] \div 16)) + 1],
      B64[((b[2] % 16) * 4 + (b[3] \div 64)) + 1],
      B64[(b[3] % 64) + 1]>> \o BtoaBytes(SubSeq(b, 4, Len(b)))

Btoa(s) == BtoaBytes([i \in 1..Len(s) |-> Code(s[i])])

\* forgiving-base64: ASCII whitespace is removed, one or two trailing =
\* are dropped when the length is a multiple of four
NoSpace(s) == SelectSeq(s, LAMBDA c : c # " ")

StripPad(s) ==
  IF Len(s) > 0 /\ Len(s) % 4 = 0 /\ s[Len(s)] = "="
  THEN IF Len(s) > 1 /\ s[Len(s) - 1] = "="
       THEN SubSeq(s, 1, Len(s) - 2)
       ELSE SubSeq(s, 1, Len(s) - 1)
  ELSE s

\* atob throws InvalidCharacterError unless this holds
AtobOk(s) ==
  LET d == StripPad(NoSpace(s))
  IN  /\ Len(d) % 4 # 1
      /\ \A i \in 1..Len(d) : InSeq(B64, d[i])

RECURSIVE AtobSextets(_)
AtobSextets(x) ==
  IF Len(x) < 2 THEN <<>>
  ELSE IF Len(x) = 2 THEN
    <<Chr(x[1] * 4 + (x[2] \div 16))>>
  ELSE IF Len(x) = 3 THEN
    <<Chr(x[1] * 4 + (x[2] \div 16)),
      Chr((x[2] % 16) * 16 + (x[3] \div 4))>>
  ELSE
    <<Chr(x[1] * 4 + (x[2] \div 16)),
      Chr((x[2] % 16) * 16 + (x[3] \div 4)),
      Chr((x[3] % 4) * 64 + x[4])>> \o AtobSextets(SubSeq(x, 5, Len(x)))

Atob(s) ==
  LET d == StripPad(NoSpace(s))
  IN  AtobSextets([i \in 1..Len(d) |-> IndexOf(B64, d[i]) - 1])

(***************************************************************************)
(* JSON.stringify({ candidateId, salt }) and JSON.parse(...).candidateId   *)
(***************************************************************************)
KeyCandidateId == <<"{", "\"", "c", "a", "n", "d", "i", "d", "a", "t", "e", "I", "d", "\"", ":">>

KeySalt == <<",", "\"", "s", "a", "l", "t", "\"", ":">>

RECURSIVE Escape(_)
Escape(s) ==
  IF s = <<>> THEN <<>>
  ELSE IF Head(s) = "\"" \/ Head(s) = "\\"
       THEN <<"\\", Head(s)>> \o Escape(Tail(s))
       ELSE <<Head(s)>> \o Escape(Tail(s))

Quote(s) == <<"\"">> \o Escape(s) \o <<"\"">>

JsonStringify(candidateId, salt) ==
  KeyCandidateId \o Quote(candidateId) \o KeySalt \o salt \o <<"}">>

\* end of the string literal that opens at position i - 1: the position of
\* the closing quote, or 0 when the literal is not terminated or malformed
RECURSIVE LiteralEnd(_, _)
LiteralEnd(s, i) ==
  IF i > Len(s) \/ s[i] = NonPrintable THEN 0
  ELSE IF s[i] = "\"" THEN i
  ELSE IF s[i] = "\\"
       THEN IF i + 1 <= Len(s) /\ s[i + 1] \in {"\"", "\\", "/"}
            THEN LiteralEnd(s, i + 2)
            ELSE 0
       ELSE LiteralEnd(s, i + 1)

RECURSIVE Unescape(_)
Unescape(s) ==
  IF s = <<>> THEN <<>>
  ELSE IF Head(s) = "\\"
       THEN <<s[2]>> \o Unescape(SubSeq(s, 3, Len(s)))
       ELSE <<Head(s)>> \o Unescape(Tail(s))

IsNumberText(s) ==
  /\ Len(s) > 0
  /\ \A i \in 1..Len(s) : s[i] \in {"0", "1", "2", "3", "4", "5", "6", "7", "8", "9", ".", "e", "-"}
  /\ s[1] \in {"0", "1", "2", "3", "4", "5", "6", "7", "8", "9"}

\* JSON.parse(s).candidateId for the object shape encryptVote writes;
\* any other text is a SyntaxError, reported as Null
JsonParseCandidateId(s) ==
  LET k == Len(KeyCandidateId)
      e == LiteralEnd(s, k + 2)
  IN  IF /\ Len(s) > k + 1
         /\ SubSeq(s, 1, k) = KeyCandidateId
         /\ s[k + 1] = "\""
         /\ e # 0
         /\ Len(s) > e + Len(KeySalt) + 1
         /\ SubSeq(s, e + 1, e + Len(KeySalt)) = KeySalt
         /\ s[Len(s)] = "}"
         /\ IsNumberText(SubSeq(s, e + Len(KeySalt) + 1, Len(s) - 1))
      THEN Unescape(SubSeq(s, k + 2, e - 1))
      ELSE Null

(***************************************************************************)
(* cryptoService: encryptVote / decryptVote                                *)
(***************************************************************************)
\* encryptVote with a payload that leaves the drawn salt out
EncryptedDataFixedSalt(candidateId, publicKey, salt) ==
  Btoa(Reverse(JsonStringify(candidateId, <<"0">>))) \o <<".">> \o Substring0(publicKey, 5)

EncryptedData(candidateId, publicKey, salt) ==
  Btoa(Reverse(JsonStringify(candidateId, salt))) \o <<".">> \o Substring0(publicKey, 5)

IntegrityHash(candidateId, now) ==
  Btoa(<<"H", "A", "S", "H", "-">> \o candidateId \o <<"-">> \o Digits(now))

encryptVote(candidateId, publicKey, salt, now) ==
  [encryptedData |-> EncryptedData(candidateId, publicKey, salt),
   hash |-> IntegrityHash(candidateId, now)]

PayloadPart(encryptedData) == SplitDot0(encryptedData)

\* decryptVote without the reversal
DecryptedStringNoReverse(payloadPart) == Atob(payloadPart)

DecryptedString(payloadPart) == Reverse(Atob(payloadPart))

\* decryptVote that asks for a private key of two characters or more
decryptVoteLongKey(encryptedData, privateKey) ==
  IF Len(privateKey) < 2 THEN Null
  ELSE IF ~AtobOk(PayloadPart(encryptedData)) THEN Null
  ELSE JsonParseCandidateId(DecryptedString(PayloadPart(encryptedData)))

decryptVote(encryptedData, privateKey) ==
  IF privateKey = <<>> THEN Null
  ELSE IF ~AtobOk(PayloadPart(encryptedData)) THEN Null
  ELSE JsonParseCandidateId(DecryptedString(PayloadPart(encryptedData)))


(***************************************************************************)
(* constants.ts, types.ts.  The records keep the fields a handler reads   *)
(* or writes; display data (names, parties, device and network type) and   *)
(* the random id and the timestamp of a log entry are left out.            *)
(***************************************************************************)
\* a timestamp field holding null
NoTime == 0 - 1

\* a nullable reference (results, selectedCandidate): null, or a value
None == <<>>

Some(x) == <<x>>

PublicKey == <<"m", "o", "c", "k", "-", "p", "u", "b", "l", "i", "c", "-", "k", "e", "y", "-", "1", "2", "3", "4", "5">>

PrivateKey == <<"m", "o", "c", "k", "-", "p", "r", "i", "v", "a", "t", "e", "-", "k", "e", "y">>

MOCK_CANDIDATES == << <<"c", "1">>, <<"c", "2">>, <<"c", "3">>, <<"c", "4">> >>

\* batteryLevel is held in hundredths of a percent
Percent == 100

InitialBooth(id, location, battery, total, now) ==
  [id |-> id, location |-> location, status |-> "ONLINE",
   accessibilityReady |-> TRUE, batteryLevel |-> battery * Percent,
   lastHeartbeat |-> now, totalVotes |-> total]

Log(level, category, message) ==
  [level |-> level, category |-> category, message |-> message]

ELECTION_TYPES ==
  << "Lok Sabha General Election", "Rajya Sabha Election",
     "State Legislative Assembly (Vidhan Sabha)",
     "State Legislative Council (Vidhan Parishad)",
     "Municipal Corporation Election", "Gram Panchayat Election",
     "Zilla Parishad Election", "Bye-Election" >>

\* INITIAL_ELECTION_CONFIG; Date.now() of the module load is now
INITIAL_ELECTION_CONFIG(now) ==
  [status |-> "SETUP",
   type |-> "Lok Sabha General Election",
   name |-> "General Election 2024 - Phase 1",
   startTime |-> NoTime,
   endTime |-> NoTime,
   candidates |-> MOCK_CANDIDATES,
   publicKey |-> PublicKey,
   booths |-> << InitialBooth("K-101", "Main Hall A", 98, 124, now),
                 InitialBooth("K-102", "Main Hall B", 85, 98, now),
                 InitialBooth("K-201", "Annex Room", 45, 12, now) >>,
   logs |-> << Log("INFO", "SYSTEM", <<"System initialized">>),
               Log("INFO", "ACCESS", <<"Admin logged in">>) >>]

VARIABLES
  pc,                \* App start-up: "boot" (first render), "loading", "ready"
  mode,              \* App: mode
  config,            \* App: config (React state)
  votes,             \* App: votes (React state), the ledger
  rconfig,           \* config as of the last render (props and closures)
  rvotes,            \* votes as of the last render
  store,             \* localStorage: <<>> or <<[votes, config]>>
  loaded,            \* values read at mount, queued by setVotes / setConfig
  authKey1,          \* AdminDashboard: authKey1
  authKey2,          \* AdminDashboard: authKey2
  key1Valid,         \* AdminDashboard: key1Valid
  key2Valid,         \* AdminDashboard: key2Valid
  results,           \* AdminDashboard: results
  step,              \* VoterInterface: step
  selectedCandidate, \* VoterInterface: selectedCandidate
  authTimers,        \* VoterInterface: pending timeouts of handleAuthComplete
  inflight,          \* pending encryptVote calls of handleConfirmVote
  clock,             \* Date.now()
  ticks,             \* interval callbacks run so far
  intervals,         \* App: live setInterval timers of the telemetry effect
  fault              \* "none"; "quota": localStorage.setItem throws;
                     \* "unmounted": an effect has thrown and React has removed the tree

appVars == <<pc, mode, config, votes, rconfig, rvotes, store, loaded, intervals, fault>>

adminVars == <<authKey1, authKey2, key1Valid, key2Valid, results>>

voterVars == <<step, selectedCandidate, authTimers, inflight>>

vars == <<pc, mode, config, votes, rconfig, rvotes, store, loaded,
          authKey1, authKey2, key1Valid, key2Valid, results,
          step, selectedCandidate, authTimers, inflight, clock, ticks, intervals, fault>>

\* useState initial values of AdminDashboard
AdminMount ==
  /\ authKey1' = ""
  /\ authKey2' = ""
  /\ key1Valid' = FALSE
  /\ key2Valid' = FALSE
  /\ results' = None

\* useState initial values of VoterInterface; the timeouts of an unmounted
\* instance no longer reach a mounted one
VoterMount ==
  /\ step' = "LANGUAGE"
  /\ selectedCandidate' = None
  /\ authTimers' = 0

Detach(fl) == [i \in 1..Len(fl) |-> [fl[i] EXCEPT !.mounted = FALSE]]

\* Date.now(): a reading not before the last one
Times == clock..MaxClock

\* the first render of App
Init ==
  /\ pc = "boot"
  /\ mode = "LANDING"
  /\ clock = 0
  /\ config = INITIAL_ELECTION_CONFIG(0)
  /\ votes = <<>>
  /\ rconfig = INITIAL_ELECTION_CONFIG(0)
  /\ rvotes = <<>>
  /\ store = <<>>
  /\ loaded = <<>>
  /\ authKey1 = ""
  /\ authKey2 = ""
  /\ key1Valid = FALSE
  /\ key2Valid = FALSE
  /\ results = None
  /\ step = "LANGUAGE"
  /\ selectedCandidate = None
  /\ authTimers = 0
  /\ inflight = <<>>
  /\ ticks = 0
  /\ intervals = 0
  /\ fault = "none"

(***************************************************************************)
(* App: rendering and the persistence effects                              *)
(***************************************************************************)
\* the effect of [votes, config]: both keys are written
Saved(vs, cfg) == << [votes |-> vs, config |-> cfg] >>

\* the variant of TelemetryEffect whose cleanup does not clear the interval
TelemetryEffectNoCleanup(n, prevStatus, status) ==
  IF status = prevStatus THEN n
  ELSE IF status = "ACTIVE" THEN n + 1 ELSE n

\* the telemetry effect after a render: with config.status changed, the
\* cleanup of the previous run clears its interval, and the new run sets one
\* if the status is ACTIVE; n is the number of live intervals
TelemetryEffect(n, prevStatus, status) ==
  IF status = prevStatus THEN n
  ELSE LET cleared == IF prevStatus = "ACTIVE" THEN n - 1 ELSE n
       IN  IF status = "ACTIVE" THEN cleared + 1 ELSE cleared

\* a render of the current state followed by its effects; setItem of the
\* save effect throws when the storage refuses the write, nothing catches
\* it, and React unmounts the tree, which runs the cleanup of the interval
Commit(vs, cfg) ==
  /\ votes' = vs
  /\ config' = cfg
  /\ rvotes' = vs
  /\ rconfig' = cfg
  /\ IF fault = "quota"
     THEN /\ store' = store
          /\ intervals' = 0
          /\ fault' = "unmounted"
     ELSE /\ store' = Saved(vs, cfg)
          /\ intervals' = TelemetryEffect(intervals, rconfig.status, cfg.status)
          /\ fault' = fault

\* the mount effects: read both keys and queue them, then write the state
\* of the first render
MountEffects ==
  /\ pc = "boot"
  /\ pc' = "loading"
  /\ loaded' = store
  /\ IF fault = "quota"
     THEN store' = store /\ fault' = "unmounted"
     ELSE store' = Saved(rvotes, rconfig) /\ fault' = fault
  /\ UNCHANGED <<mode, config, votes, rconfig, rvotes, clock, ticks, intervals>>
  /\ UNCHANGED adminVars
  /\ UNCHANGED voterVars

\* the render of the queued values and the effects after it
BootRender ==
  /\ pc = "loading"
  /\ fault # "unmounted"
  /\ pc' = "ready"
  /\ loaded' = <<>>
  /\ IF loaded = <<>>
     THEN Commit(votes, config)
     ELSE Commit(loaded[1].votes, loaded[1].config)
  /\ UNCHANGED <<mode, clock, ticks>>
  /\ UNCHANGED adminVars
  /\ UNCHANGED voterVars

\* a render scheduled by an update made outside an event handler
Render ==
  /\ pc = "ready"
  /\ fault # "unmounted"
  /\ <<rvotes, rconfig>> # <<votes, config>>
  /\ Commit(votes, config)
  /\ UNCHANGED <<pc, mode, loaded, clock, ticks>>
  /\ UNCHANGED adminVars
  /\ UNCHANGED voterVars

\* the page is reloaded or the process ends and starts again
Restart(now) ==
  /\ now \in Times
  /\ clock' = now
  /\ pc' = "boot"
  /\ mode' = "LANDING"
  /\ config' = INITIAL_ELECTION_CONFIG(now)
  /\ votes' = <<>>
  /\ rconfig' = INITIAL_ELECTION_CONFIG(now)
  /\ rvotes' = <<>>
  /\ loaded' = <<>>
  /\ AdminMount
  /\ VoterMount
  /\ inflight' = <<>>
  /\ intervals' = 0
  /\ fault' = IF fault = "unmounted" THEN "quota" ELSE fault
  /\ UNCHANGED <<store, ticks>>


(***************************************************************************)
(* App: navigation between the views                                       *)
(***************************************************************************)
Ready == pc = "ready" /\ fault # "unmounted"

\* landing page, "Voter Entry"
EnterVoterFlow ==
  /\ Ready /\ mode = "LANDING"
  /\ mode' = "VOTER_FLOW"
  /\ VoterMount
  /\ UNCHANGED <<pc, config, votes, rconfig, rvotes, store, loaded, inflight, clock, ticks, intervals, fault>>
  /\ UNCHANGED adminVars

\* landing page, "Admin Login"
EnterAdminLogin ==
  /\ Ready /\ mode = "LANDING"
  /\ mode' = "ADMIN_LOGIN"
  /\ UNCHANGED <<pc, config, votes, rconfig, rvotes, store, loaded, clock, ticks, intervals, fault>>
  /\ UNCHANGED adminVars
  /\ UNCHANGED voterVars

AdminPassword == "123456"

handleAdminLogin(adminPass) ==
  /\ Ready /\ mode = "ADMIN_LOGIN"
  /\ IF adminPass = AdminPassword
     THEN mode' = "ADMIN_DASHBOARD" /\ AdminMount
     ELSE UNCHANGED mode /\ UNCHANGED adminVars
  /\ UNCHANGED <<pc, config, votes, rconfig, rvotes, store, loaded, clock, ticks, intervals, fault>>
  /\ UNCHANGED voterVars

\* admin login, "Back to Home"
BackToHome ==
  /\ Ready /\ mode = "ADMIN_LOGIN"
  /\ mode' = "LANDING"
  /\ UNCHANGED <<pc, config, votes, rconfig, rvotes, store, loaded, clock, ticks, intervals, fault>>
  /\ UNCHANGED adminVars
  /\ UNCHANGED voterVars

\* AdminDashboard, "Logout": onReset unmounts the dashboard
Logout ==
  /\ Ready /\ mode = "ADMIN_DASHBOARD"
  /\ mode' = "LANDING"
  /\ AdminMount
  /\ UNCHANGED <<pc, config, votes, rconfig, rvotes, store, loaded, clock, ticks, intervals, fault>>
  /\ UNCHANGED voterVars

(***************************************************************************)
(* AdminDashboard: the handlers read the config and votes props of the     *)
(* last render; onUpdateConfig replaces the whole config and the event     *)
(* ends with a render.                                                     *)
(***************************************************************************)
Dashboard == Ready /\ mode = "ADMIN_DASHBOARD"

onUpdateConfig(cfg) == Commit(votes, cfg)

NoUpdate == UNCHANGED <<config, votes, rconfig, rvotes, store, intervals, fault>>

unreadyBooths(cfg) == SelectSeq(cfg.booths, LAMBDA b : ~b.accessibilityReady)

\* handleStartElection asking for one candidate only
StartRejectedOneCandidate(cfg) ==
  \/ Len(unreadyBooths(cfg)) > 0
  \/ Len(cfg.candidates) < 1

\* the two early returns of handleStartElection
StartRejected(cfg) ==
  \/ Len(unreadyBooths(cfg)) > 0
  \/ Len(cfg.candidates) < 2

StartLog == Log("INFO", "SYSTEM", <<"Election Status changed to ACTIVE. All booths unlocked.">>)

StartedConfig(cfg, now) ==
  [cfg EXCEPT !.status = "ACTIVE", !.startTime = now, !.logs = <<StartLog>> \o cfg.logs]

\* the variant of StartButtonShown that renders the button in every status
StartButtonShownAlways(cfg) == TRUE

\* "Initialize & Start Voting" is rendered while the status is SETUP
StartButtonShown(cfg) == cfg.status = "SETUP"

handleStartElection(now) ==
  /\ Dashboard
  /\ now \in Times
  /\ clock' = IF StartRejected(rconfig) THEN clock ELSE now
  /\ StartButtonShown(rconfig)
  /\ IF StartRejected(rconfig)
     THEN NoUpdate
     ELSE onUpdateConfig(StartedConfig(rconfig, now))
  /\ UNCHANGED <<pc, mode, loaded, ticks>>
  /\ UNCHANGED adminVars
  /\ UNCHANGED voterVars

\* the variant of lockedBooths that locks the booths that are ONLINE only
lockedBoothsOnlineOnly(booths) ==
  [i \in 1..Len(booths) |->
     IF booths[i].status = "ONLINE" THEN [booths[i] EXCEPT !.status = "LOCKED"] ELSE booths[i]]

lockedBooths(booths) == [i \in 1..Len(booths) |-> [booths[i] EXCEPT !.status = "LOCKED"]]

StopLog == Log("WARNING", "SYSTEM", <<"Election Status changed to CLOSED. All booths locked.">>)

StoppedConfig(cfg, now) ==
  [cfg EXCEPT !.status = "CLOSED", !.endTime = now,
              !.booths = lockedBooths(cfg.booths),
              !.logs = <<StopLog>> \o cfg.logs]

handleStopElection(confirmed, now) ==
  /\ Dashboard
  /\ now \in Times
  /\ clock' = IF confirmed THEN now ELSE clock
  /\ rconfig.status = "ACTIVE"
  /\ IF ~confirmed
     THEN NoUpdate
     ELSE onUpdateConfig(StoppedConfig(rconfig, now))
  /\ UNCHANGED <<pc, mode, loaded, ticks>>
  /\ UNCHANGED adminVars
  /\ UNCHANGED voterVars

\* the variant of InputDisabled that never disables the two inputs
InputDisabledNever(cfg) == FALSE

\* the disabled attribute of the election type select and of the name input
InputDisabled(cfg) == cfg.status # "SETUP"

\* onChange of the election type select
setElectionType(type) ==
  /\ Dashboard
  /\ ~InputDisabled(rconfig)
  /\ InSeq(ELECTION_TYPES, type)
  /\ onUpdateConfig([rconfig EXCEPT !.type = type])
  /\ UNCHANGED <<pc, mode, loaded, clock, ticks>>
  /\ UNCHANGED adminVars
  /\ UNCHANGED voterVars

\* onChange of the election name input
setElectionName(name) ==
  /\ Dashboard
  /\ ~InputDisabled(rconfig)
  /\ onUpdateConfig([rconfig EXCEPT !.name = name])
  /\ UNCHANGED <<pc, mode, loaded, clock, ticks>>
  /\ UNCHANGED adminVars
  /\ UNCHANGED voterVars

\* the id of a candidate added at time now
NewCandidateId(now) == <<"c", "-">> \o Digits(now)

\* filled: a name is typed and a party of config.parties is selected
addCandidate(filled, now) ==
  /\ Dashboard
  /\ now \in Times
  /\ clock' = IF filled THEN now ELSE clock
  /\ rconfig.status = "SETUP"
  /\ Len(rconfig.candidates) < MaxCandidates
  /\ IF ~filled
     THEN NoUpdate
     ELSE onUpdateConfig([rconfig EXCEPT !.candidates = Append(@, NewCandidateId(now))])
  /\ UNCHANGED <<pc, mode, loaded, ticks>>
  /\ UNCHANGED adminVars
  /\ UNCHANGED voterVars

removeCandidate(candidateId, confirmed) ==
  /\ Dashboard
  /\ rconfig.status = "SETUP"
  /\ InSeq(rconfig.candidates, candidateId)
  /\ IF ~confirmed
     THEN NoUpdate
     ELSE onUpdateConfig([rconfig EXCEPT !.candidates = SelectSeq(@, LAMBDA c : c # candidateId)])
  /\ UNCHANGED <<pc, mode, loaded, clock, ticks>>
  /\ UNCHANGED adminVars
  /\ UNCHANGED voterVars

\* the variant of BoothRejected without the duplicate-id early return
BoothRejectedNoDuplicate(cfg, id, location) == id = "" \/ location = ""

\* the two early returns of addBooth
BoothRejected(cfg, id, location) ==
  \/ id = "" \/ location = ""
  \/ \E i \in 1..Len(cfg.booths) : cfg.booths[i].id = id

NewBooth(id, location, accessibilityReady, now) ==
  [id |-> id, location |-> location, status |-> "ONLINE",
   accessibilityReady |-> accessibilityReady, batteryLevel |-> 100 * Percent,
   lastHeartbeat |-> now, totalVotes |-> 0]

addBooth(id, location, accessibilityReady, now) ==
  /\ Dashboard
  /\ now \in Times
  /\ clock' = IF BoothRejected(rconfig, id, location) THEN clock ELSE now
  /\ rconfig.status = "SETUP"
  /\ Len(rconfig.booths) < MaxBooths
  /\ IF BoothRejected(rconfig, id, location)
     THEN NoUpdate
     ELSE onUpdateConfig([rconfig EXCEPT !.booths =
            Append(@, NewBooth(id, location, accessibilityReady, now))])
  /\ UNCHANGED <<pc, mode, loaded, ticks>>
  /\ UNCHANGED adminVars
  /\ UNCHANGED voterVars

removeBooth(boothId, confirmed) ==
  /\ Dashboard
  /\ rconfig.status = "SETUP"
  /\ \E i \in 1..Len(rconfig.booths) : rconfig.booths[i].id = boothId
  /\ IF ~confirmed
     THEN NoUpdate
     ELSE onUpdateConfig([rconfig EXCEPT !.booths = SelectSeq(@, LAMBDA b : b.id # boothId)])
  /\ UNCHANGED <<pc, mode, loaded, clock, ticks>>
  /\ UNCHANGED adminVars
  /\ UNCHANGED voterVars

(***************************************************************************)
(* AdminDashboard: multi-authority decryption                              *)
(***************************************************************************)
Key1Reference == "admin1"

Key2Reference == "admin2"

\* the key validation effect
Key1Check(key) == key = Key1Reference

\* the second secret compared with the reference of the first
Key2CheckFirstReference(key) == key = Key1Reference

Key2Check(key) == key = Key2Reference

\* the decryption panel is rendered while results is null; its inputs carry
\* disabled = (config.status # CLOSED)
KeyInputEnabled == results = None /\ rconfig.status = "CLOSED"

setAuthKey1(key) ==
  /\ Dashboard
  /\ KeyInputEnabled
  /\ authKey1' = key
  /\ key1Valid' = Key1Check(key)
  /\ key2Valid' = Key2Check(authKey2)
  /\ UNCHANGED <<authKey2, results, clock, ticks>>
  /\ UNCHANGED appVars
  /\ UNCHANGED voterVars

setAuthKey2(key) ==
  /\ Dashboard
  /\ KeyInputEnabled
  /\ authKey2' = key
  /\ key1Valid' = Key1Check(authKey1)
  /\ key2Valid' = Key2Check(key)
  /\ UNCHANGED <<authKey1, results, clock, ticks>>
  /\ UNCHANGED appVars
  /\ UNCHANGED voterVars

\* the disabled attribute of the "Decrypt & Tally Votes" button, negated
DecryptButtonEnabled(k1, k2, status) == k1 /\ k2 /\ status = "CLOSED"

\* the ids of Object.keys(tally): first occurrences, in insertion order
RECURSIVE TallyKeys(_)
TallyKeys(candidates) ==
  IF candidates = <<>> THEN <<>>
  ELSE <<Head(candidates)>> \o TallyKeys(SelectSeq(Tail(candidates), LAMBDA c : c # Head(candidates)))

\* whether the vote passes "candidateId && tally[candidateId] !== undefined"
Counted(vote, candidates) ==
  LET candidateId == decryptVote(vote.encryptedData, PrivateKey)
  IN  candidateId # Null /\ candidateId # <<>> /\ InSeq(candidates, candidateId)

VotesFor(candidateId, ledger, candidates) ==
  Len(SelectSeq(ledger, LAMBDA v : /\ Counted(v, candidates)
                                   /\ decryptVote(v.encryptedData, PrivateKey) = candidateId))

decryptedCount(ledger, candidates) ==
  Len(SelectSeq(ledger, LAMBDA v : Counted(v, candidates)))

resultsArray(ledger, candidates) ==
  LET keys == TallyKeys(candidates)
  IN  [i \in 1..Len(keys) |->
         [candidateId |-> keys[i], count |-> VotesFor(keys[i], ledger, candidates)]]

TallyLog(n) == Log("INFO", "VOTE", <<"Votes decrypted successfully. Total verified: ", n>>)

\* a tally that publishes without its log entry
PublishedConfigNoLog(cfg, ledger) == [cfg EXCEPT !.status = "PUBLISHED"]

PublishedConfig(cfg, ledger) ==
  [cfg EXCEPT !.status = "PUBLISHED",
              !.logs = <<TallyLog(decryptedCount(ledger, cfg.candidates))>> \o cfg.logs]

handleDecryptResults ==
  /\ Dashboard
  /\ results = None
  /\ DecryptButtonEnabled(key1Valid, key2Valid, rconfig.status)
  /\ IF key1Valid /\ key2Valid
     THEN /\ results' = Some(resultsArray(rvotes, rconfig.candidates))
          /\ onUpdateConfig(PublishedConfig(rconfig, rvotes))
     ELSE /\ UNCHANGED results
          /\ NoUpdate
  /\ UNCHANGED <<pc, mode, loaded, clock, ticks>>
  /\ UNCHANGED <<authKey1, authKey2, key1Valid, key2Valid>>
  /\ UNCHANGED voterVars


(***************************************************************************)
(* VoterInterface                                                          *)
(***************************************************************************)
Voter == Ready /\ mode = "VOTER_FLOW"

\* the "Election Paused" screen replaces every step but LANGUAGE
Paused == rconfig.status # "ACTIVE" /\ step # "LANGUAGE"

VoterStep(from) == Voter /\ ~Paused /\ step = from

VoterFrame ==
  /\ UNCHANGED <<clock, ticks>>
  /\ UNCHANGED appVars
  /\ UNCHANGED adminVars

handleLanguageSelect ==
  /\ VoterStep("LANGUAGE")
  /\ step' = "AUTH"
  /\ UNCHANGED <<selectedCandidate, authTimers, inflight>>
  /\ VoterFrame

\* "Simulate Scan": one more timeout is pending
handleAuthComplete ==
  /\ VoterStep("AUTH")
  /\ authTimers < MaxTimers
  /\ authTimers' = authTimers + 1
  /\ UNCHANGED <<step, selectedCandidate, inflight>>
  /\ VoterFrame

\* a timeout of handleAuthComplete expires
AuthTimeout ==
  /\ Voter
  /\ authTimers > 0
  /\ authTimers' = authTimers - 1
  /\ step' = "ACCESS_SETUP"
  /\ UNCHANGED <<selectedCandidate, inflight>>
  /\ VoterFrame

\* "Continue to Vote"
ContinueToVote ==
  /\ VoterStep("ACCESS_SETUP")
  /\ step' = "VOTE_SELECTION"
  /\ UNCHANGED <<selectedCandidate, authTimers, inflight>>
  /\ VoterFrame

handleVoteSelect(candidateId) ==
  /\ VoterStep("VOTE_SELECTION")
  /\ InSeq(rconfig.candidates, candidateId)
  /\ selectedCandidate' = Some(candidateId)
  /\ UNCHANGED <<step, authTimers, inflight>>
  /\ VoterFrame

\* "Back" of the selection step
BackToAccessSetup ==
  /\ VoterStep("VOTE_SELECTION")
  /\ step' = "ACCESS_SETUP"
  /\ UNCHANGED <<selectedCandidate, authTimers, inflight>>
  /\ VoterFrame

\* "Review Selection", disabled while nothing is selected
ReviewSelection ==
  /\ VoterStep("VOTE_SELECTION")
  /\ selectedCandidate # None
  /\ step' = "CONFIRMATION"
  /\ UNCHANGED <<selectedCandidate, authTimers, inflight>>
  /\ VoterFrame

\* "Change Vote"
ChangeVote ==
  /\ VoterStep("CONFIRMATION")
  /\ step' = "VOTE_SELECTION"
  /\ UNCHANGED <<selectedCandidate, authTimers, inflight>>
  /\ VoterFrame

\* handleConfirmVote up to its await: encryptVote is called and pending
handleConfirmVote ==
  /\ VoterStep("CONFIRMATION")
  /\ Len(votes) + Len(inflight) < MaxVotes
  /\ Len(inflight) < MaxInflight
  /\ IF selectedCandidate = None
     THEN UNCHANGED <<step, inflight>>
     ELSE /\ step' = "SUBMITTING"
          /\ inflight' = Append(inflight, [candidateId |-> selectedCandidate[1],
                                           publicKey |-> rconfig.publicKey,
                                           mounted |-> TRUE])
  /\ UNCHANGED <<selectedCandidate, authTimers>>
  /\ VoterFrame

\* handleVoteSubmit, on the state at the time of the call
VoteAppended(ledger, vote) == Append(ledger, vote)

VoteCounted(cfg) ==
  [cfg EXCEPT !.booths =
     [i \in 1..Len(cfg.booths) |->
        IF cfg.booths[i].id = "K-101"
        THEN [cfg.booths[i] EXCEPT !.totalVotes = @ + 1]
        ELSE cfg.booths[i]]]

\* the variant of VoteRecord that also stores who voted
VoteRecordWithVoter(voteId, encrypted, now) ==
  [voteId |-> voteId, encryptedData |-> encrypted.encryptedData,
   integrityHash |-> encrypted.hash, timestamp |-> now, voterId |-> voteId]

VoteRecord(voteId, encrypted, now) ==
  [voteId |-> voteId, encryptedData |-> encrypted.encryptedData,
   integrityHash |-> encrypted.hash, timestamp |-> now]

\* handleConfirmVote after its await: the oldest pending encryptVote
\* resolves, the record is handed to handleVoteSubmit, and the step of the
\* instance that started it is set if that instance is still mounted
SubmitVote(salt, now) ==
  /\ Ready
  /\ now \in Times
  /\ clock' = now
  /\ inflight # <<>>
  /\ LET call == Head(inflight)
         encrypted == encryptVote(call.candidateId, call.publicKey, salt, now)
     IN  /\ votes' = VoteAppended(votes, VoteRecord(Len(votes) + 1, encrypted, now))
         /\ config' = VoteCounted(config)
         /\ step' = IF call.mounted THEN "RECEIPT" ELSE step
  /\ inflight' = Tail(inflight)
  /\ UNCHANGED <<pc, mode, rconfig, rvotes, store, loaded, ticks, intervals, fault>>
  /\ UNCHANGED <<selectedCandidate, authTimers>>
  /\ UNCHANGED adminVars

\* onExit: "Exit / Next Voter" of the receipt, "Back to Home" of the
\* paused screen
ExitVoterFlow ==
  /\ Voter
  /\ Paused \/ step = "RECEIPT"
  /\ mode' = "LANDING"
  /\ VoterMount
  /\ inflight' = Detach(inflight)
  /\ UNCHANGED <<pc, config, votes, rconfig, rvotes, store, loaded, clock, ticks, intervals, fault>>
  /\ UNCHANGED adminVars

(***************************************************************************)
(* App: telemetry simulation                                               *)
(***************************************************************************)
\* Math.random() * 0.05, in hundredths of a percent
Drains == {0, 4}

\* the draws of one tick for one booth
BoothDraws == [isOffline : BOOLEAN, drain : Drains]

\* a tick that drains without the clamp of Math.max
TickBoothNoClamp(booth, draw, now) ==
  IF booth.status = "LOCKED" \/ booth.status = "MAINTENANCE" THEN booth
  ELSE [booth EXCEPT
          !.lastHeartbeat = IF draw.isOffline THEN booth.lastHeartbeat ELSE now,
          !.status = IF draw.isOffline THEN "OFFLINE" ELSE "ONLINE",
          !.batteryLevel = booth.batteryLevel - draw.drain]

\* a tick that skips LOCKED booths only
TickBoothLockedOnly(booth, draw, now) ==
  IF booth.status = "LOCKED" THEN booth
  ELSE [booth EXCEPT
          !.lastHeartbeat = IF draw.isOffline THEN booth.lastHeartbeat ELSE now,
          !.status = IF draw.isOffline THEN "OFFLINE" ELSE "ONLINE",
          !.batteryLevel = Max(0, booth.batteryLevel - draw.drain)]

\* the callback of prev.booths.map
TickBooth(booth, draw, now) ==
  IF booth.status = "LOCKED" \/ booth.status = "MAINTENANCE" THEN booth
  ELSE [booth EXCEPT
          !.lastHeartbeat = IF draw.isOffline THEN booth.lastHeartbeat ELSE now,
          !.status = IF draw.isOffline THEN "OFFLINE" ELSE "ONLINE",
          !.batteryLevel = Max(0, booth.batteryLevel - draw.drain)]

\* the variant of LatencyLog without the fallback of the || operator
LatencyLogNoFallback(booths) ==
  Log("WARNING", "SECURITY",
      <<"Latency spike detected in ", IF Len(booths) > 0 THEN booths[1].location ELSE "undefined">>)

LatencyLog(booths) ==
  Log("WARNING", "SECURITY",
      <<"Latency spike detected in ", IF Len(booths) > 0 THEN booths[1].location ELSE "System">>)

\* the updater passed to setConfig by the interval callback
TickConfig(prev, draws, inject, now) ==
  LET updatedBooths == [i \in 1..Len(prev.booths) |-> TickBooth(prev.booths[i], draws[i], now)]
  IN  [prev EXCEPT !.booths = updatedBooths,
                   !.logs = IF inject THEN <<LatencyLog(updatedBooths)>> \o prev.logs
                            ELSE prev.logs]

\* an interval set by the telemetry effect is live
IntervalSet == Ready /\ intervals > 0

TelemetryTick(draws, inject, now) ==
  /\ IntervalSet
  /\ now \in Times
  /\ clock' = now
  /\ ticks < MaxTicks
  /\ ticks' = ticks + 1
  /\ config' = TickConfig(config, draws, inject, now)
  /\ UNCHANGED <<pc, mode, votes, rconfig, rvotes, store, loaded, intervals, fault>>
  /\ UNCHANGED adminVars
  /\ UNCHANGED voterVars

(***************************************************************************)
(* The election run: the shipped configuration is started, voted on,       *)
(* closed and tallied, with restarts at any moment.                        *)
(***************************************************************************)
\* Math.random() of encryptVote, as JSON.stringify writes it
Salts == { <<"0", ".", "5">> }

KeyInputs == {"admin1", "admin2", "wrong"}

PasswordInputs == {AdminPassword, "000000"}

\* the candidates a voter selects
BallotChoices == {MOCK_CANDIDATES[1], MOCK_CANDIDATES[2]}

\* the draws of one tick: nothing happens but the drain, or every booth
\* misses its heartbeat and the latency log is injected
TickInputs == { <<[isOffline |-> FALSE, drain |-> 4], FALSE>>,
                <<[isOffline |-> TRUE, drain |-> 0], TRUE>> }

AllBooths(n, draw) == [i \in 1..n |-> draw]

Next ==
  \/ MountEffects
  \/ BootRender
  \/ Render
  \/ \E now \in 0..MaxClock : Restart(now)
  \/ EnterVoterFlow
  \/ EnterAdminLogin
  \/ \E adminPass \in PasswordInputs : handleAdminLogin(adminPass)
  \/ BackToHome
  \/ Logout
  \/ \E now \in 0..MaxClock : handleStartElection(now)
  \/ \E confirmed \in BOOLEAN, now \in 0..MaxClock : handleStopElection(confirmed, now)
  \/ \E key \in KeyInputs : setAuthKey1(key)
  \/ \E key \in KeyInputs : setAuthKey2(key)
  \/ handleDecryptResults
  \/ handleLanguageSelect
  \/ handleAuthComplete
  \/ AuthTimeout
  \/ ContinueToVote
  \/ \E c \in BallotChoices : handleVoteSelect(c)
  \/ BackToAccessSetup
  \/ ReviewSelection
  \/ ChangeVote
  \/ handleConfirmVote
  \/ \E salt \in Salts, now \in 0..MaxClock : SubmitVote(salt, now)
  \/ ExitVoterFlow
  \/ \E t \in TickInputs, now \in 0..MaxClock :
        TelemetryTick(AllBooths(Len(config.booths), t[1]), t[2], now)

Spec == Init /\ [][Next]_vars

(***************************************************************************)
(* The configuration phase: the administrator edits candidates and booths  *)
(* and starts the election.                                                *)
(***************************************************************************)
BoothIdInputs == {"", "K-101", "K-301"}

LocationInputs == {"", "Gate"}

CandidateIds == {MOCK_CANDIDATES[i] : i \in 1..Len(MOCK_CANDIDATES)} \cup {NewCandidateId(t) : t \in 0..MaxClock}

BoothIds == {"K-101", "K-102", "K-201", "K-301"}

TypeInputs == {ELECTION_TYPES[1], ELECTION_TYPES[8]}

NameInputs == {"General Election 2024 - Phase 1", "General Election 2024 - Phase 2"}

SetupNext ==
  \/ MountEffects
  \/ BootRender
  \/ \E now \in 0..MaxClock : Restart(now)
  \/ EnterAdminLogin
  \/ \E adminPass \in PasswordInputs : handleAdminLogin(adminPass)
  \/ BackToHome
  \/ Logout
  \/ \E type \in TypeInputs : setElectionType(type)
  \/ \E name \in NameInputs : setElectionName(name)
  \/ \E filled \in BOOLEAN, now \in 0..MaxClock : addCandidate(filled, now)
  \/ \E c \in CandidateIds, confirmed \in BOOLEAN : removeCandidate(c, confirmed)
  \/ \E id \in BoothIdInputs, location \in LocationInputs, ready \in BOOLEAN, now \in 0..MaxClock :
        addBooth(id, location, ready, now)
  \/ \E id \in BoothIds, confirmed \in BOOLEAN : removeBooth(id, confirmed)
  \/ \E now \in 0..MaxClock : handleStartElection(now)

SetupSpec == Init /\ [][SetupNext]_vars

(***************************************************************************)
(* Voting on an edited booth list: the administrator deregisters and       *)
(* registers booths, starts the election, and votes are cast at the kiosk. *)
(***************************************************************************)
KioskNext ==
  \/ MountEffects
  \/ BootRender
  \/ Render
  \/ EnterAdminLogin
  \/ \E adminPass \in PasswordInputs : handleAdminLogin(adminPass)
  \/ Logout
  \/ \E id \in BoothIdInputs, location \in LocationInputs, ready \in BOOLEAN, now \in 0..MaxClock :
        addBooth(id, location, ready, now)
  \/ \E id \in BoothIds, confirmed \in BOOLEAN : removeBooth(id, confirmed)
  \/ \E now \in 0..MaxClock : handleStartElection(now)
  \/ EnterVoterFlow
  \/ handleLanguageSelect
  \/ handleAuthComplete
  \/ AuthTimeout
  \/ ContinueToVote
  \/ \E c \in BallotChoices : handleVoteSelect(c)
  \/ ReviewSelection
  \/ handleConfirmVote
  \/ \E salt \in Salts, now \in 0..MaxClock : SubmitVote(salt, now)
  \/ ExitVoterFlow

KioskSpec == Init /\ [][KioskNext]_vars

(***************************************************************************)
(* Monitoring an edited booth list: the administrator deregisters booths,  *)
(* starts the election, and the telemetry timer ticks.                     *)
(***************************************************************************)
MonitorNext ==
  \/ MountEffects
  \/ BootRender
  \/ Render
  \/ EnterAdminLogin
  \/ \E adminPass \in PasswordInputs : handleAdminLogin(adminPass)
  \/ \E id \in BoothIds, confirmed \in BOOLEAN : removeBooth(id, confirmed)
  \/ \E now \in 0..MaxClock : handleStartElection(now)
  \/ \E confirmed \in BOOLEAN, now \in 0..MaxClock : handleStopElection(confirmed, now)
  \/ \E draws \in [1..Len(config.booths) -> BoothDraws], inject \in BOOLEAN, now \in 0..MaxClock :
        TelemetryTick(draws, inject, now)

MonitorSpec == Init /\ [][MonitorNext]_vars

(***************************************************************************)
(* A storage that starts to refuse writes: the configuration phase and the *)
(* start and close of the election, with localStorage filling up at any    *)
(* moment and with restarts.                                               *)
(***************************************************************************)
\* from now on localStorage.setItem throws
StorageFills ==
  /\ fault = "none"
  /\ fault' = "quota"
  /\ UNCHANGED <<pc, mode, config, votes, rconfig, rvotes, store, loaded, intervals, clock, ticks>>
  /\ UNCHANGED adminVars
  /\ UNCHANGED voterVars

QuotaNext ==
  \/ MountEffects
  \/ BootRender
  \/ StorageFills
  \/ \E now \in 0..MaxClock : Restart(now)
  \/ EnterAdminLogin
  \/ \E adminPass \in PasswordInputs : handleAdminLogin(adminPass)
  \/ BackToHome
  \/ Logout
  \/ \E c \in CandidateIds, confirmed \in BOOLEAN : removeCandidate(c, confirmed)
  \/ \E id \in BoothIds, confirmed \in BOOLEAN : removeBooth(id, confirmed)
  \/ \E now \in 0..MaxClock : handleStartElection(now)
  \/ \E confirmed \in BOOLEAN, now \in 0..MaxClock : handleStopElection(confirmed, now)

QuotaSpec == Init /\ [][QuotaNext]_vars

(***************************************************************************)
(* The crypto service on its own: encryptVote is called, up to twice, on a *)
(* drawn candidateId and publicKey, decryptVote, up to twice, on the first *)
(* output and a drawn privateKey.  inflight holds the call, loaded the     *)
(* salts drawn, votes the records built from the outputs, authKey1 and     *)
(* authKey2 the privateKeys and results the outputs of decryptVote.        *)
(***************************************************************************)
CryptoCandidateIds ==
  { <<"c", "1">>, <<"c", "-", "1", "7">>, <<>>, <<"a", ".", "b">>,
    <<"q", "\"", "\\">>, <<"n", "u", "l", "l">>, <<"{", "}", ":", ",">> }

CryptoPublicKeys == { PublicKey, <<>>, <<"a", ".", "b">> }

CryptoPrivateKeys == { PrivateKey, <<>>, <<"x">> }

CryptoSalts == { <<"0", ".", "5">>, <<"0", ".", "2", "5">>, <<"1", "e", "-", "7">> }

CryptoInit ==
  /\ pc = "ready"
  /\ mode = "LANDING"
  /\ clock = 0
  /\ config = INITIAL_ELECTION_CONFIG(0)
  /\ votes = <<>>
  /\ rconfig = INITIAL_ELECTION_CONFIG(0)
  /\ rvotes = <<>>
  /\ store = Saved(<<>>, INITIAL_ELECTION_CONFIG(0))
  /\ loaded = <<>>
  /\ authKey1 = <<>>
  /\ authKey2 = <<>>
  /\ key1Valid = FALSE
  /\ key2Valid = FALSE
  /\ results = None
  /\ step = "LANGUAGE"
  /\ selectedCandidate = None
  /\ authTimers = 0
  /\ \E c \in CryptoCandidateIds, k \in CryptoPublicKeys :
        inflight = << [candidateId |-> c, publicKey |-> k, mounted |-> FALSE] >>
  /\ ticks = 0
  /\ intervals = 0
  /\ fault = "none"

\* encryptVote(candidateId, publicKey)
CryptoEncrypt(salt, now) ==
  /\ Len(votes) < 2
  /\ now \in Times
  /\ clock' = now
  /\ loaded' = Append(loaded, salt)
  /\ votes' = Append(votes, VoteRecord(Len(votes) + 1,
                  encryptVote(inflight[1].candidateId, inflight[1].publicKey, salt, now), now))
  /\ UNCHANGED <<pc, mode, config, rconfig, rvotes, store, ticks, intervals, fault>>
  /\ UNCHANGED adminVars
  /\ UNCHANGED voterVars

\* decryptVote(encryptedData, privateKey)
CryptoDecrypt(privateKey) ==
  /\ votes # <<>>
  /\ Len(results) < 2
  /\ IF results = None
     THEN authKey1' = privateKey /\ UNCHANGED authKey2
     ELSE authKey2' = privateKey /\ UNCHANGED authKey1
  /\ results' = Append(results, decryptVote(votes[1].encryptedData, privateKey))
  /\ UNCHANGED <<key1Valid, key2Valid, clock, ticks>>
  /\ UNCHANGED appVars
  /\ UNCHANGED voterVars

CryptoNext ==
  \/ \E salt \in CryptoSalts, now \in 0..MaxClock : CryptoEncrypt(salt, now)
  \/ \E privateKey \in CryptoPrivateKeys : CryptoDecrypt(privateKey)

CryptoSpec == CryptoInit /\ [][CryptoNext]_vars

(***************************************************************************)
(* decryptVote on its own: the ledger holds one record whose encryptedData *)
(* is drawn among outputs of encryptVote and texts that atob or JSON.parse *)
(* rejects, and decryptVote is called on it, up to twice, with a drawn     *)
(* privateKey.                                                             *)
(***************************************************************************)
CryptoOutputs ==
  { EncryptedData(c, k, <<"0", ".", "5">>) : c \in CryptoCandidateIds, k \in CryptoPublicKeys }

CryptoMalformed ==
  { <<>>, <<"!", "!", "!">>, <<"a">>, Btoa(<<"x">>), Btoa(<<"x">>) \o <<".", "m">>,
    <<".">> \o Substring0(PublicKey, 5) }

DecryptInit ==
  /\ pc = "ready"
  /\ mode = "LANDING"
  /\ clock = 0
  /\ config = INITIAL_ELECTION_CONFIG(0)
  /\ \E encryptedData \in CryptoOutputs \cup CryptoMalformed :
        votes = << VoteRecord(1, [encryptedData |-> encryptedData, hash |-> <<>>], 0) >>
  /\ rconfig = INITIAL_ELECTION_CONFIG(0)
  /\ rvotes = <<>>
  /\ store = <<>>
  /\ loaded = <<>>
  /\ authKey1 = <<>>
  /\ authKey2 = <<>>
  /\ key1Valid = FALSE
  /\ key2Valid = FALSE
  /\ results = None
  /\ step = "LANGUAGE"
  /\ selectedCandidate = None
  /\ authTimers = 0
  /\ inflight = <<>>
  /\ ticks = 0
  /\ intervals = 0
  /\ fault = "none"

DecryptNext == \E privateKey \in CryptoPrivateKeys : CryptoDecrypt(privateKey)

DecryptSpec == DecryptInit /\ [][DecryptNext]_vars

(***************************************************************************)
(* The telemetry updater on its own: the interval callback runs on booths  *)
(* drawn in every status, each booth with its own draws.                   *)
(***************************************************************************)
BoothStatuses == {"ONLINE", "OFFLINE", "MAINTENANCE", "LOCKED", "TAMPERED"}

\* batteryLevel in hundredths of a percent
BatteryInputs == {2, 45 * Percent, 100 * Percent}

TickBooths(statuses, battery) ==
  << [InitialBooth("K-101", "Main Hall A", 98, 124, 0) EXCEPT !.status = statuses[1]],
     [InitialBooth("K-102", "Main Hall B", 85, 98, 0) EXCEPT !.status = statuses[2],
                                                             !.batteryLevel = battery] >>

TickInit ==
  /\ pc = "ready"
  /\ mode = "LANDING"
  /\ clock = 0
  /\ \E statuses \in [1..2 -> BoothStatuses], battery \in BatteryInputs :
        /\ config = [INITIAL_ELECTION_CONFIG(0) EXCEPT !.status = "ACTIVE", !.startTime = 0,
                                                       !.booths = TickBooths(statuses, battery)]
        /\ rconfig = config
        /\ store = Saved(<<>>, config)
  /\ votes = <<>>
  /\ rvotes = <<>>
  /\ loaded = <<>>
  /\ authKey1 = ""
  /\ authKey2 = ""
  /\ key1Valid = FALSE
  /\ key2Valid = FALSE
  /\ results = None
  /\ step = "LANGUAGE"
  /\ selectedCandidate = None
  /\ authTimers = 0
  /\ inflight = <<>>
  /\ ticks = 0
  /\ intervals = 1
  /\ fault = "none"

TickNext ==
  \/ \E draws \in [1..Len(config.booths) -> BoothDraws], inject \in BOOLEAN, now \in 0..MaxClock :
        TelemetryTick(draws, inject, now)

TickSpec == TickInit /\ [][TickNext]_vars

(***************************************************************************)
(* The election as the program holds it, or, while it starts up, is about  *)
(* to hold it: the queued values while they wait for their render, the     *)
(* stored ones before the mount effects have read them.                    *)
(***************************************************************************)
ElectionConfig ==
  IF pc = "ready" THEN config
  ELSE IF pc = "loading" THEN (IF loaded # <<>> THEN loaded[1].config ELSE config)
  ELSE IF store # <<>> THEN store[1].config ELSE config

Ledger ==
  IF pc = "ready" THEN votes
  ELSE IF pc = "loading" THEN (IF loaded # <<>> THEN loaded[1].votes ELSE votes)
  ELSE IF store # <<>> THEN store[1].votes ELSE votes

IsPrefix(s, t) == Len(s) <= Len(t) /\ \A i \in 1..Len(s) : s[i] = t[i]

TotalVotes(cfg) == [i \in 1..Len(cfg.booths) |-> cfg.booths[i].totalVotes]

AllLocked(cfg) == \A i \in 1..Len(cfg.booths) : cfg.booths[i].status = "LOCKED"

VoteLogs(cfg) == SelectSeq(cfg.logs, LAMBDA l : l.category = "VOTE")

RECURSIVE SumCounts(_)
SumCounts(res) == IF res = <<>> THEN 0 ELSE Head(res).count + SumCounts(Tail(res))

\* the step of a running program in which a tally is produced
TallyStep == pc = "ready" /\ pc' = "ready" /\ results = None /\ results' # None

(***************************************************************************)
(* C1.  Over commands, ticks, submissions and restarts the status of the   *)
(* election changes only by SETUP -> ACTIVE, ACTIVE -> CLOSED and          *)
(* CLOSED -> PUBLISHED; it never moves backward or skips a status, and     *)
(* PUBLISHED is entered only by the step that produces the tally.          *)
(***************************************************************************)
C1_StatusSteps ==
  [][LET from == ElectionConfig.status
         to == ElectionConfig'.status
     IN  \/ to = from
         \/ from = "SETUP" /\ to = "ACTIVE"
         \/ from = "ACTIVE" /\ to = "CLOSED"
         \/ from = "CLOSED" /\ to = "PUBLISHED" /\ TallyStep]_vars

C4_NoVoteOutsideActive ==
  [][(pc = "ready" /\ pc' = "ready" /\ config.status # "ACTIVE")
     => (votes' = votes /\ TotalVotes(config') = TotalVotes(config))]_vars

(***************************************************************************)
(* C5.  Once the election is closed, in every later state every booth is   *)
(* LOCKED and endTime and startTime hold the values they had at the close. *)
(***************************************************************************)
C5_ClosedForGood ==
  [][ElectionConfig.status \in {"CLOSED", "PUBLISHED"}
     => /\ ElectionConfig'.status \in {"CLOSED", "PUBLISHED"}
        /\ AllLocked(ElectionConfig')
        /\ ElectionConfig'.endTime = ElectionConfig.endTime
        /\ ElectionConfig'.startTime = ElectionConfig.startTime]_vars

(***************************************************************************)
(* C6.  The tally has one entry per registered candidate, in order, and    *)
(* the count of each is the number of records of the ledger that decrypt   *)
(* to that candidate.                                                      *)
(***************************************************************************)
C6_TallyCountsLedger ==
  [][TallyStep
     => results'[1] =
          [i \in 1..Len(config.candidates) |->
             [candidateId |-> config.candidates[i],
              count |-> Cardinality({j \in 1..Len(votes) :
                          decryptVote(votes[j].encryptedData, PrivateKey) = config.candidates[i]})]]]_vars

(***************************************************************************)
(* C7.  The step that produces a tally sets the status to PUBLISHED, puts  *)
(* exactly one entry in front of the log, an INFO entry of category VOTE   *)
(* carrying the verified count, and the counts of the tally add up to      *)
(* that count, which is at most the size of the ledger.                    *)
(***************************************************************************)
C7_TallyPublishes ==
  [][TallyStep
     => /\ config'.status = "PUBLISHED"
        /\ config'.logs =
             << [level |-> "INFO", category |-> "VOTE",
                 message |-> <<"Votes decrypted successfully. Total verified: ",
                               SumCounts(results'[1])>>] >> \o config.logs
        /\ SumCounts(results'[1]) <= Len(votes)
        /\ votes' = votes]_vars

\* a tally of two verified votes has been published
C7_Witness ==
  /\ pc = "ready"
  /\ results # None
  /\ config.status = "PUBLISHED"
  /\ Len(votes) = 2
  /\ SumCounts(results[1]) = 2
  /\ Len(VoteLogs(config)) = 1

(***************************************************************************)
(* C9.  The ledger is append-only: in every step, start-up included, the   *)
(* ledger before the step is a prefix of the ledger after it.              *)
(***************************************************************************)
C9_AppendOnly == [][IsPrefix(Ledger, Ledger')]_vars

(***************************************************************************)
(* C2.  In SETUP a start fails exactly if fewer than 2 candidates are      *)
(* registered or some registered booth is not accessibilityReady; a        *)
(* failed start changes nothing, a start that does not fail sets the       *)
(* status to ACTIVE and startTime to a timestamp.                          *)
(***************************************************************************)
C2_StartElection ==
  (Dashboard /\ config.status = "SETUP")
  => IF \/ Len(config.candidates) < 2
        \/ \E i \in 1..Len(config.booths) : ~config.booths[i].accessibilityReady
     THEN ~ENABLED (\E now \in 0..MaxClock : handleStartElection(now) /\ vars' # vars)
     ELSE /\ ENABLED (\E now \in 0..MaxClock : handleStartElection(now))
          /\ ~ENABLED (\E now \in 0..MaxClock :
                         /\ handleStartElection(now)
                         /\ ~(/\ config'.status = "ACTIVE"
                              /\ config'.startTime # NoTime
                              /\ config'.startTime = now))

\* an election without booths has been started
C2_Witness ==
  /\ config.status = "ACTIVE"
  /\ config.startTime # NoTime
  /\ config.booths = <<>>
  /\ Len(config.candidates) = 2

(***************************************************************************)
(* C8.  Round trip: decryptVote with a private key that is not empty,      *)
(* applied to the encryptedData of encryptVote(candidateId, publicKey),    *)
(* returns candidateId.                                                    *)
(***************************************************************************)
C8_RoundTrip ==
  (results # None /\ authKey1 # <<>>) => results[1] = inflight[1].candidateId

\* an id with a quote and a backslash made the round trip under the
\* private key of the program
C8_Witness ==
  /\ results # None
  /\ authKey1 = PrivateKey
  /\ inflight[1].candidateId = <<"q", "\"", "\\">>
  /\ results[1] = <<"q", "\"", "\\">>

(***************************************************************************)
(* C10.  A telemetry tick leaves every booth whose status is LOCKED or     *)
(* MAINTENANCE as it is, in all its fields.                                *)
(***************************************************************************)
C10_TickSkipsLocked ==
  [][\A i \in 1..Len(config.booths) :
       config.booths[i].status \in {"LOCKED", "MAINTENANCE"}
       => (Len(config'.booths) = Len(config.booths) /\ config'.booths[i] = config.booths[i])]_vars

\* two ticks have run over a booth in MAINTENANCE, still as it was drawn,
\* while they drained the other booth and took it offline
C10_Witness ==
  /\ ticks = 2
  /\ config.booths[1] = [InitialBooth("K-101", "Main Hall A", 98, 124, 0) EXCEPT !.status = "MAINTENANCE"]
  /\ config.booths[2].status = "OFFLINE"
  /\ config.booths[2].batteryLevel = 0

(***************************************************************************)
(* C11.  The batteryLevel of every booth is within 0 and 100 percent in    *)
(* every state, and a telemetry tick never raises it: it takes off less    *)
(* than 0.05 percent and stops at 0.                                       *)
(***************************************************************************)
C11_BatteryRange ==
  /\ [](\A i \in 1..Len(config.booths) :
          config.booths[i].batteryLevel >= 0 /\ config.booths[i].batteryLevel <= 100 * Percent)
  /\ [][ticks' # ticks
        => /\ Len(config'.booths) = Len(config.booths)
           /\ \A i \in 1..Len(config.booths) :
                /\ config'.booths[i].batteryLevel <= config.booths[i].batteryLevel
                /\ config.booths[i].batteryLevel - config'.booths[i].batteryLevel < 5
                /\ (config'.booths[i].batteryLevel = config.booths[i].batteryLevel
                    \/ config'.booths[i].batteryLevel = 0
                    \/ config.booths[i].batteryLevel - config'.booths[i].batteryLevel = 4)]_vars

\* one tick has drained a booth that held less than the drain, down to 0
C11_Witness ==
  /\ ticks = 1
  /\ config.booths[2].status = "ONLINE"
  /\ config.booths[2].batteryLevel = 0
  /\ config.booths[2].lastHeartbeat = 1

\* the ids of the registered booths
BoothIdsOf(cfg) == {cfg.booths[i].id : i \in 1..Len(cfg.booths)}

C13_DistinctBoothIds ==
  /\ [](\A i, j \in 1..Len(config.booths) :
          config.booths[i].id = config.booths[j].id => i = j)
  /\ [][(pc = "ready" /\ pc' = "ready" /\ Len(config'.booths) > Len(config.booths))
         => /\ config'.booths = Append(config.booths, config'.booths[Len(config'.booths)])
            /\ config'.booths[Len(config'.booths)].id # ""
            /\ config'.booths[Len(config'.booths)].location # ""
            /\ config'.booths[Len(config'.booths)].id \notin BoothIdsOf(config)]_vars

\* booth K-301 was registered after two removals: a further registration is
\* possible, with a registered id or with a new one
C13_Witness ==
  /\ pc = "ready"
  /\ mode = "ADMIN_DASHBOARD"
  /\ config.status = "SETUP"
  /\ Len(config.booths) = 2
  /\ config.booths[1].id = "K-101"
  /\ config.booths[2].id = "K-301"
  /\ config.booths[2].location = "Gate"

\* the fields of every record of a ledger are the four of VoteRecord
FourFields(ledger) ==
  \A i \in 1..Len(ledger) :
    DOMAIN ledger[i] = {"voteId", "encryptedData", "timestamp", "integrityHash"}

\* C14: every vote record, in the ledger held in memory, in the ledger last
\* rendered, in the stored ledger and in the ledger loaded at startup, has
\* exactly the fields voteId, encryptedData, timestamp and integrityHash, so
\* no field names the voter.
C14_RecordFields ==
  /\ FourFields(votes)
  /\ FourFields(rvotes)
  /\ \A i \in 1..Len(store) : FourFields(store[i].votes)
  /\ \A i \in 1..Len(loaded) : FourFields(loaded[i].votes)

\* two votes were recorded and saved, and are loaded again at a restart
C14_Witness ==
  /\ pc = "loading"
  /\ loaded # <<>>
  /\ Len(loaded[1].votes) = 2
  /\ loaded[1].votes[2].voteId = 2

\* t ends with s
IsSuffix(s, t) ==
  Len(s) <= Len(t) /\ \A i \in 1..Len(s) : s[i] = t[Len(t) - Len(s) + i]

\* C15: updates made against the same prior state compose: no step of the
\* running application takes back a vote count, a heartbeat, a battery drain
\* or a log entry that an earlier tick, vote submission or operator command
\* has put into the state.
C15_NoLostUpdate ==
  [][(pc = "ready" /\ pc' = "ready")
       => /\ Len(config'.booths) = Len(config.booths)
          /\ \A i \in 1..Len(config.booths) :
               /\ config'.booths[i].totalVotes >= config.booths[i].totalVotes
               /\ config'.booths[i].lastHeartbeat >= config.booths[i].lastHeartbeat
               /\ config'.booths[i].batteryLevel <= config.booths[i].batteryLevel
          /\ IsSuffix(config.logs, config'.logs)]_vars

\* C16: the telemetry timer exists exactly while the status is ACTIVE: there
\* is never more than one live interval, also after a restart; once the
\* application is up there is one if and only if the status is ACTIVE, so it
\* is cleared when the status leaves ACTIVE; and every tick that runs finds
\* the status ACTIVE, so no tick changes booths or logs of an election that
\* is not ACTIVE.
C16_TimerWhileActive ==
  /\ [](intervals \in {0, 1})
  /\ [](pc # "ready" => intervals = 0)
  /\ [](pc = "ready" => (intervals = 1 <=> config.status = "ACTIVE"))
  /\ [][ticks' # ticks => config.status = "ACTIVE" /\ config'.status = "ACTIVE"]_vars

\* the election was closed after the timer had ticked twice, and the timer
\* is gone
C16_Witness ==
  /\ pc = "ready"
  /\ config.status = "CLOSED"
  /\ ticks = MaxTicks
  /\ intervals = 0

\* C17: a step of the running application that appends a vote to the ledger
\* adds 1 to the totalVotes of exactly one booth and leaves every other booth
\* as it was, whatever booths were deregistered or registered before the
\* election was started.
C17_OneBoothCounts ==
  [][(pc = "ready" /\ pc' = "ready" /\ Len(votes') = Len(votes) + 1)
       => /\ Len(config'.booths) = Len(config.booths)
          /\ \E i \in 1..Len(config.booths) :
               /\ config'.booths[i] = [config.booths[i] EXCEPT !.totalVotes = @ + 1]
               /\ \A j \in 1..Len(config.booths) :
                    j # i => config'.booths[j] = config.booths[j]]_vars

\* C18: PUBLISHED is terminal in the running application: from a state with
\* status PUBLISHED no step changes the status, the log or a tally already
\* shown (the panel only forgets it when the dashboard is left), no step
\* produces a tally, and the "Decrypt & Tally Votes" handler cannot run.
C18_PublishedTerminal ==
  /\ []((pc = "ready" /\ config.status = "PUBLISHED") => ~ENABLED handleDecryptResults)
  /\ [][(pc = "ready" /\ pc' = "ready" /\ config.status = "PUBLISHED")
         => /\ config'.status = "PUBLISHED"
            /\ config'.logs = config.logs
            /\ config'.candidates = config.candidates
            /\ ~TallyStep
            /\ (results' = results \/ results' = None)]_vars

\* the administrator is back on the dashboard of a published election after
\* a logout: the decryption panel is rendered again, with both key fields
\* empty
C18_Witness ==
  /\ pc = "ready"
  /\ mode = "ADMIN_DASHBOARD"
  /\ config.status = "PUBLISHED"
  /\ results = None
  /\ Len(votes) = 1

\* C19: a step of the running application that changes the status puts
\* exactly one entry in front of the security log and keeps every entry that
\* was there; the entry has category SYSTEM, with level INFO when the
\* election is started and WARNING when it is closed; a step that leaves the
\* status SETUP, a rejected start among them, leaves the log as it is.
C19_OneLogPerTransition ==
  [][(pc = "ready" /\ pc' = "ready")
       => /\ config'.status # config.status
               => /\ Len(config'.logs) = Len(config.logs) + 1
                  /\ Tail(config'.logs) = config.logs
                  /\ config'.status = "ACTIVE"
                       => config'.logs[1].category = "SYSTEM" /\ config'.logs[1].level = "INFO"
                  /\ config'.status = "CLOSED"
                       => config'.logs[1].category = "SYSTEM" /\ config'.logs[1].level = "WARNING"
          /\ (config.status = "SETUP" /\ config'.status = "SETUP")
               => config'.logs = config.logs]_vars

\* C20: the security log is append-only and newest-first: every step of the
\* running application leaves the log as it is or puts new entries in front
\* of it, the entries that were there staying behind them in their order.
C20_LogAppendOnly ==
  [][(pc = "ready" /\ pc' = "ready") => IsSuffix(config.logs, config'.logs)]_vars

\* the entry a tick injects when there is no booth to name
SystemLatencyLog == Log("WARNING", "SECURITY", <<"Latency spike detected in ", "System">>)

\* C21 as stated: a tick on an empty booth list leaves the log as it is and
\* the timer running.
C21_EmptyTickSkipsLog ==
  [][(ticks' # ticks /\ config.booths = <<>>)
       => config'.logs = config.logs /\ intervals' = 1]_vars

\* C21 as amended: a tick on an empty booth list leaves the booth list empty,
\* the status ACTIVE and the timer running, and either leaves the log as it
\* is or puts in front of it the latency warning that names "System".
C21_EmptyTickRuns ==
  [][(ticks' # ticks /\ config.booths = <<>>)
       => /\ config'.booths = <<>>
          /\ config'.status = "ACTIVE"
          /\ intervals' = 1
          /\ (config'.logs = config.logs
              \/ config'.logs = <<SystemLatencyLog>> \o config.logs)]_vars

\* an election without booths has ticked and the warning was injected
C21_Witness ==
  /\ config.booths = <<>>
  /\ config.status = "ACTIVE"
  /\ ticks = 1
  /\ intervals = 1
  /\ config.logs[1] = SystemLatencyLog

\* C22: a failed save is not fatal: the application is never taken down by
\* it, so the election and the ledger held in memory stay in place and every
\* command offered before the failure is still accepted.
C22_SaveFailureNotFatal == fault # "unmounted"

\* C23: the persisted state round-trips a restart: over a restart and the
\* steps of its startup load, the election and the ledger of the program
\* (held in memory, or stored and about to be loaded) stay what they were
\* before the restart, so that once the load has completed the state in
\* memory equals the one held before.  Restarts of a program that has not
\* saved anything yet are left out.
C23_RestartRoundTrip ==
  [][(store # <<>> /\ (pc # "ready" \/ pc' # "ready"))
       => ElectionConfig' = ElectionConfig /\ Ledger' = Ledger]_vars

\* C24 as stated: two calls of encryptVote with the same candidateId and the
\* same publicKey produce the same encryptedData.
C24_EncryptDeterministic ==
  Len(votes) = 2 => votes[1].encryptedData = votes[2].encryptedData

\* C24 as amended: two calls of encryptVote with the same candidateId and the
\* same publicKey produce the same encryptedData exactly when Math.random()
\* gave them the same salt.
C24_EncryptSalted ==
  Len(votes) = 2 => (votes[1].encryptedData = votes[2].encryptedData <=> loaded[1] = loaded[2])

\* two calls on the same arguments drew different salts
C24_Witness ==
  /\ Len(votes) = 2
  /\ inflight[1].candidateId = <<"c", "1">>
  /\ inflight[1].publicKey = PublicKey
  /\ loaded[1] = <<"0", ".", "5">>
  /\ loaded[2] = <<"1", "e", "-", "7">>
  /\ votes[1].encryptedData # votes[2].encryptedData

\* C25: in every step that produces a tally, the counts of the tally add up
\* to the size of the ledger: no record of the ledger is left out and none
\* decrypts to an id that is not on the ballot.
C25_TallySumIsLedgerSize ==
  [][TallyStep => SumCounts(results'[1]) = Len(votes) /\ Len(votes') = Len(votes)]_vars

\* C26: one voter session submits at most one ballot: while the voter
\* interface stays mounted, a flow that has reached SUBMITTING or RECEIPT
\* never shows another step, and no more than one encryption started by
\* the mounted interface is pending.
C26_OneBallotPerSession ==
  /\ [](Len(SelectSeq(inflight, LAMBDA call : call.mounted)) <= 1)
  /\ [][(mode = "VOTER_FLOW" /\ mode' = "VOTER_FLOW" /\ step \in {"SUBMITTING", "RECEIPT"})
         => step' \in {"SUBMITTING", "RECEIPT"}]_vars

\* the place of a status in the order SETUP, ACTIVE, CLOSED, PUBLISHED
StatusRank(status) ==
  CASE status = "SETUP" -> 0
    [] status = "ACTIVE" -> 1
    [] status = "CLOSED" -> 2
    [] status = "PUBLISHED" -> 3

\* C27: the stored state never regresses: once an election and a ledger are
\* stored, no write, the writes of the startup included, stores a ledger
\* with fewer records or an election with an earlier status.
C27_StoreNeverRegresses ==
  [][(store # <<>> /\ store' # <<>>)
       => /\ Len(store'[1].votes) >= Len(store[1].votes)
          /\ StatusRank(store'[1].config.status) >= StatusRank(store[1].config.status)]_vars

\* C28: once published, the tally stays obtainable: in every state with
\* status PUBLISHED and the dashboard mounted, the dashboard holds a tally
\* or the "Decrypt & Tally Votes" handler can run.
C28_TallyObtainable ==
  (pc = "ready" /\ mode = "ADMIN_DASHBOARD" /\ config.status = "PUBLISHED")
    => (results # None \/ ENABLED handleDecryptResults)

\* the statuses a booth may have in each phase of the election
PhaseStatuses(status) ==
  CASE status = "SETUP" -> {"ONLINE"}
    [] status = "ACTIVE" -> {"ONLINE", "OFFLINE"}
    [] status \in {"CLOSED", "PUBLISHED"} -> {"LOCKED"}

BoothsFollowPhase(cfg) ==
  \A i \in 1..Len(cfg.booths) : cfg.booths[i].status \in PhaseStatuses(cfg.status)

\* C29: the booth status follows the election phase in every state: in SETUP
\* every booth is ONLINE, in ACTIVE ONLINE or OFFLINE, in CLOSED and
\* PUBLISHED LOCKED, so that no booth is ever in MAINTENANCE or TAMPERED.
\* This holds of the election in memory, of the one last rendered and of
\* the stored and the loaded one.
C29_BoothStatusFollowsPhase ==
  /\ BoothsFollowPhase(config)
  /\ BoothsFollowPhase(rconfig)
  /\ \A i \in 1..Len(store) : BoothsFollowPhase(store[i].config)
  /\ \A i \in 1..Len(loaded) : BoothsFollowPhase(loaded[i].config)

\* a tick has taken the booths of a running election offline
C29_Witness ==
  /\ pc = "ready"
  /\ config.status = "ACTIVE"
  /\ ticks = 1
  /\ config.booths[1].status = "OFFLINE"
  /\ config.booths[3].status = "OFFLINE"

\* the private keys of the calls of decryptVote made so far, in their order
DecryptKeys == IF Len(results) = 2 THEN <<authKey1, authKey2>> ELSE <<authKey1>>

\* decryptVote reads nothing of encryptedData after its first dot
SuffixIgnored ==
  \A i \in 1..Len(results) :
     results[i] = decryptVote(PayloadPart(votes[1].encryptedData) \o <<".", "z">>, DecryptKeys[i])

\* C30 as stated: the result of decryptVote is the same under any two keys
\* that are not empty, whatever the encryptedData; a call returns null
\* exactly when its key is empty; the text after the first dot is ignored.
C30_KeyIndependent ==
  /\ (Len(results) = 2 /\ authKey1 # <<>> /\ authKey2 # <<>>) => results[1] = results[2]
  /\ \A i \in 1..Len(results) : (results[i] = Null) <=> (DecryptKeys[i] = <<>>)
  /\ SuffixIgnored

\* C30, amended: the result of decryptVote is the same under any two keys
\* that are not empty, whatever the encryptedData; a call with the empty
\* key returns null; on an output of encryptVote only the empty key
\* returns null, while on a text that cannot be decoded every key returns
\* null; the text after the first dot is ignored.
C30_KeyIndependentOrMalformed ==
  /\ (Len(results) = 2 /\ authKey1 # <<>> /\ authKey2 # <<>>) => results[1] = results[2]
  /\ \A i \in 1..Len(results) :
        /\ DecryptKeys[i] = <<>> => results[i] = Null
        /\ votes[1].encryptedData \in CryptoOutputs
             => ((results[i] = Null) <=> (DecryptKeys[i] = <<>>))
        /\ votes[1].encryptedData \in CryptoMalformed => results[i] = Null
  /\ SuffixIgnored

\* the same output of encryptVote decrypted under the private key of the
\* program and under another one, to the same candidate id
C30_Witness ==
  /\ Len(results) = 2
  /\ authKey1 = PrivateKey
  /\ authKey2 = <<"x">>
  /\ votes[1].encryptedData = EncryptedData(<<"c", "-", "1", "7">>, PublicKey, <<"0", ".", "5">>)
  /\ results[1] = <<"c", "-", "1", "7">>
  /\ results[2] = <<"c", "-", "1", "7">>

====
